---------------------------- MODULE Spec2Model ----------------------------
(***************************************************************************)
(* A model of nih's trust package (src/trust/bundle.go) and of its         *)
(* credential generator (src/trust/trustgen/trustgen.go).                  *)
(*                                                                         *)
(* A certificate is a record of the fields of x509.Certificate that the    *)
(* package and crypto/x509's Verify read.  Raw is the DER the certificate  *)
(* was parsed from: it fixes the certificate's identity in a CertPool and  *)
(* carries the signature, while the other fields are the parsed struct     *)
(* fields, which a caller may change on a copy (as the package's tests     *)
(* do) without changing Raw.  Validity windows are not modelled: every     *)
(* certificate is used inside its NotBefore..NotAfter window.              *)
(***************************************************************************)
EXTENDS Integers, Sequences, FiniteSets, TLC

\* -------------------------------------------------------------------------
\* Bounds of the model
\* -------------------------------------------------------------------------
MaxIssued == 3
MaxChain == 2
MaxRoots == 1

VARIABLES
    serial,     \* trustgen.serial, the process-wide atomic.Int64
    issued,     \* the credentials the generator has returned, in order
    call,       \* the NewBundle call: its arguments and what it returned
    cert,       \* the certificate handed to validateLeaf
    verdict,    \* what validateLeaf returned for it
    bundle,     \* the constructed *Bundle the TLS callbacks belong to
    rawCerts,   \* the rawCerts argument of verifyPeerCertificate
    outcome,    \* how that verifyPeerCertificate call ended
    built,      \* the bundle as NewBundle returned it
    handshakes, \* the handshakes in progress that use the bundle's tls.Config
    procs,      \* the goroutines minting credentials concurrently
    minted,     \* the serial numbers given out, in the order of serial.Add
    finished,   \* the serial numbers whose issuance has returned
    pemIn,      \* the certificates and the key a PEM file is written from
    file,       \* the PEM file: its name and its lines
    pemOut      \* what LoadCertificates or LoadPrivateKey returned for it

vars == <<serial, issued, call, cert, verdict, bundle, rawCerts, outcome,
          built, handshakes, procs, minted, finished, pemIn, file, pemOut>>

genVars  == <<serial, issued, call>>
leafVars == <<cert, verdict>>
peerVars == <<bundle, rawCerts, outcome>>
tlsVars  == <<built, handshakes>>
mintVars == <<procs, minted, finished>>
pemVars  == <<pemIn, file, pemOut>>

\* -------------------------------------------------------------------------
\* Certificates, keys, errors
\* -------------------------------------------------------------------------
KeyUsageBits == {"digitalSignature", "certSign", "keyEncipherment"}
ExtKeyUsages == {"clientAuth", "serverAuth", "codeSigning", "any"}

KeyUsageCertSign == {"certSign"}
KeyUsageDigitalSignature == {"digitalSignature"}

\* A key pair is named by a positive number: the private key (crypto.Signer) k
\* signs what the public key k verifies.  NoKey is a nil signer / unset key.
NoKey == 0

NoError == [at |-> "", idx |-> -1, msg |-> ""]
errorsNew(m) == [at |-> "", idx |-> -1, msg |-> m]
\* fmt.Errorf("root[%d]: %w", i, err) and fmt.Errorf("chain[%d]: %w", i, err):
\* the innermost position stays the one the validator gave.
Errorf(at, i, err) == [at |-> at, idx |-> i, msg |-> err.msg]

\* x509.ParseCertificate on a well-formed DER: the struct fields are those
\* the DER encodes.
ParseCertificate(der) ==
    [Raw                   |-> der,
     SerialNumber          |-> der.SerialNumber,
     PublicKey             |-> der.PublicKey,
     IsCA                  |-> der.IsCA,
     BasicConstraintsValid |-> der.BasicConstraintsValid,
     KeyUsage              |-> der.KeyUsage,
     ExtKeyUsage           |-> der.ExtKeyUsage]

\* -------------------------------------------------------------------------
\* crypto/x509 as bundle.go uses it
\* -------------------------------------------------------------------------
\* CertPool.contains: membership by the hash of Raw.
contains(pool, c) == \E i \in DOMAIN pool : pool[i].Raw = c.Raw

\* CertPool.AddCert: a certificate whose Raw the pool holds is not added again.
AddCert(pool, c) == IF contains(pool, c) THEN pool ELSE Append(pool, c)

RECURSIVE AddCerts(_, _)
AddCerts(pool, cs) ==
    IF cs = <<>> THEN pool ELSE AddCerts(AddCert(pool, Head(cs)), Tail(cs))

\* Certificate.CheckSignatureFrom(parent): the parent must be entitled to
\* sign (version 3 certificates) and its public key must verify the signature.
CheckSignatureFrom(c, parent) ==
    /\ parent.BasicConstraintsValid
    /\ parent.IsCA
    /\ (parent.KeyUsage = {} \/ "certSign" \in parent.KeyUsage)
    /\ c.Raw.SignedBy = parent.PublicKey

\* Certificate.isValid for a candidate parent (intermediate or root).
isValidCA(c) == c.BasicConstraintsValid /\ c.IsCA

\* alreadyInChain: same subject, same public key, same SANs.  The generator
\* sets neither a subject nor SANs, so the public key decides.
alreadyInChain(cand, chain) ==
    \E i \in DOMAIN chain : chain[i].PublicKey = cand.PublicKey

\* Certificate.buildChains: every chain from c up to a root of `roots`
\* through certificates of `intermediates`.
RECURSIVE buildChains(_, _, _, _)
buildChains(c, currentChain, intermediates, roots) ==
    LET ok(cand) == /\ ~alreadyInChain(cand, currentChain)
                    /\ CheckSignatureFrom(c, cand)
                    /\ isValidCA(cand)
        viaRoots == { Append(currentChain, roots[i]) :
                        i \in {j \in DOMAIN roots : ok(roots[j])} }
        viaInter == UNION { buildChains(intermediates[i],
                                        Append(currentChain, intermediates[i]),
                                        intermediates, roots) :
                        i \in {j \in DOMAIN intermediates : ok(intermediates[j])} }
    IN  viaRoots \cup viaInter

\* checkChainForKeyUsage with the default requested usage, server-auth: a
\* certificate with no extended key usage is unrestricted, one that lists
\* "any" too; every other one must list the requested usage.
checkChainForKeyUsage(chain) ==
    \A i \in DOMAIN chain :
        \/ chain[i].ExtKeyUsage = {}
        \/ "any" \in chain[i].ExtKeyUsage
        \/ "serverAuth" \in chain[i].ExtKeyUsage

\* Certificate.Verify(VerifyOptions{Intermediates, Roots}).
Verify(c, intermediates, roots) ==
    LET candidateChains ==
            IF contains(roots, c) THEN {<<c>>}
            ELSE buildChains(c, <<c>>, intermediates, roots)
    IN  IF candidateChains = {}
        THEN errorsNew("x509: certificate signed by unknown authority")
        ELSE IF \A ch \in candidateChains : ~checkChainForKeyUsage(ch)
        THEN errorsNew("x509: certificate specifies an incompatible key usage")
        ELSE NoError

\* -------------------------------------------------------------------------
\* ChainValidator (bundle.go)
\* -------------------------------------------------------------------------
validateCertificate(c) ==
    IF ~c.BasicConstraintsValid THEN errorsNew("basic constraints invalid")
    ELSE NoError

validateLeaf(c) ==
    IF validateCertificate(c) # NoError THEN validateCertificate(c)
    ELSE IF c.IsCA THEN errorsNew("is a CA")
    ELSE IF c.KeyUsage # KeyUsageDigitalSignature THEN errorsNew("invalid key usage")
    ELSE LET clientAuth == "clientAuth" \in c.ExtKeyUsage
             serverAuth == "serverAuth" \in c.ExtKeyUsage
         IN  IF ~(clientAuth /\ serverAuth)
             THEN errorsNew("invalid extended key usage")
             ELSE NoError

verifyCA(c, roots) ==
    IF ~c.IsCA THEN errorsNew("not a CA")
    ELSE IF c.KeyUsage # KeyUsageCertSign THEN errorsNew("invalid key usage")
    ELSE IF c.ExtKeyUsage # {} THEN errorsNew("invalid extended key usage")
    ELSE Verify(c, <<>>, roots)

verifyIntermediate(c, roots) ==
    IF validateCertificate(c) # NoError THEN validateCertificate(c)
    ELSE verifyCA(c, roots)

verifyRoot(c) ==
    IF validateCertificate(c) # NoError THEN validateCertificate(c)
    ELSE verifyCA(c, AddCert(<<>>, c))

NilCert == [nil |-> TRUE]

\* The first i >= 2 whose chain[i] fails verifyIntermediate, or 0.
firstBadIntermediate(chain, roots) ==
    LET bad == {i \in 2..Len(chain) : verifyIntermediate(chain[i], roots) # NoError}
    IN  IF bad = {} THEN 0 ELSE CHOOSE i \in bad : \A j \in bad : i <= j

\* verifyChain's VerifyOptions.Intermediates: nil for a chain of one,
\* otherwise a pool of chain[1:].
intermediatesOf(chain) ==
    IF Len(chain) > 1 THEN AddCerts(<<>>, Tail(chain)) ELSE <<>>

\* chain[0] on an empty slice: a run-time panic, not an error value.
IndexOutOfRange ==
    [at |-> "panic", idx |-> 0,
     msg |-> "runtime error: index out of range [0] with length 0"]

\* verifyChain with the final path validation run without the intermediates
\* (VerifyOptions{Roots: roots} alone).
verifyChain_rootsOnly(chain, roots) ==
    IF chain = <<>>
    THEN [leaf |-> NilCert, err |-> IndexOutOfRange]
    ELSE IF validateLeaf(chain[1]) # NoError
    THEN [leaf |-> NilCert, err |-> Errorf("chain", 0, validateLeaf(chain[1]))]
    ELSE IF firstBadIntermediate(chain, roots) # 0
    THEN LET i == firstBadIntermediate(chain, roots)
         IN  [leaf |-> NilCert,
              err  |-> Errorf("chain", i - 1, verifyIntermediate(chain[i], roots))]
    ELSE IF Verify(chain[1], <<>>, roots) # NoError
    THEN [leaf |-> NilCert, err |-> Verify(chain[1], <<>>, roots)]
    ELSE [leaf |-> chain[1], err |-> NoError]

\* verifyChain; Go's chain[i] is chain[i+1] here, and the error carries Go's
\* index.  It indexes chain[0] before anything else, so an empty chain ends
\* it in a panic, which `err` records as IndexOutOfRange.
verifyChain(chain, roots) ==
    IF chain = <<>>
    THEN [leaf |-> NilCert, err |-> IndexOutOfRange]
    ELSE IF validateLeaf(chain[1]) # NoError
    THEN [leaf |-> NilCert, err |-> Errorf("chain", 0, validateLeaf(chain[1]))]
    ELSE IF firstBadIntermediate(chain, roots) # 0
    THEN LET i == firstBadIntermediate(chain, roots)
         IN  [leaf |-> NilCert,
              err  |-> Errorf("chain", i - 1, verifyIntermediate(chain[i], roots))]
    ELSE IF Verify(chain[1], intermediatesOf(chain), roots) # NoError
    THEN [leaf |-> NilCert, err |-> Verify(chain[1], intermediatesOf(chain), roots)]
    ELSE [leaf |-> chain[1], err |-> NoError]

\* The roots pool with chain[1:] added to it: what verifyChain would leave
\* behind if its intermediates pool were the roots pool itself.
rootsAfterVerifyChain_shared(chain, roots) ==
    IF Len(chain) > 1 THEN AddCerts(roots, Tail(chain)) ELSE roots

\* The roots pool after verifyChain(chain, roots): verifyChain adds chain[1:]
\* to a pool of its own (x509.NewCertPool) and only reads `roots`.
rootsAfterVerifyChain(chain, roots) == roots

\* -------------------------------------------------------------------------
\* TrustBundle (bundle.go)
\* -------------------------------------------------------------------------
NilBundle == [nil |-> TRUE]

firstBadRoot(roots) ==
    LET bad == {i \in DOMAIN roots : verifyRoot(roots[i]) # NoError}
    IN  IF bad = {} THEN 0 ELSE CHOOSE i \in bad : \A j \in bad : i <= j

RawsOf(chain) == [i \in DOMAIN chain |-> chain[i].Raw]

\* The two opening checks with the roots looked at first.
emptyArgument_rootsFirst(chain, roots) ==
    IF Len(roots) = 0 THEN errorsNew("trust: empty roots")
    ELSE IF Len(chain) = 0 THEN errorsNew("trust: empty chain")
    ELSE NoError

\* NewBundle's two opening checks, in their order.
emptyArgument(chain, roots) ==
    IF Len(chain) = 0 THEN errorsNew("trust: empty chain")
    ELSE IF Len(roots) = 0 THEN errorsNew("trust: empty roots")
    ELSE NoError

NewBundle(chain, signer, roots) ==
    IF emptyArgument(chain, roots) # NoError
    THEN [bundle |-> NilBundle, err |-> emptyArgument(chain, roots)]
    ELSE IF firstBadRoot(roots) # 0
    THEN LET i == firstBadRoot(roots)
         IN  [bundle |-> NilBundle, err |-> Errorf("root", i - 1, verifyRoot(roots[i]))]
    ELSE LET rootPool == AddCerts(<<>>, roots)
             v == verifyChain(chain, rootPool)
         IN  IF v.err # NoError
             THEN [bundle |-> NilBundle, err |-> v.err]
             ELSE [bundle |-> [cert  |-> [Certificate |-> RawsOf(chain),
                                          PrivateKey  |-> signer,
                                          Leaf        |-> v.leaf],
                               roots |-> rootPool],
                   err    |-> NoError]

\* -------------------------------------------------------------------------
\* CredentialGenerator (trustgen.go)
\* -------------------------------------------------------------------------
RootTemplate ==
    [PublicKey |-> NoKey, IsCA |-> TRUE, BasicConstraintsValid |-> TRUE,
     KeyUsage |-> KeyUsageCertSign, ExtKeyUsage |-> {}]

IntermediateTemplate ==
    [PublicKey |-> NoKey, IsCA |-> TRUE, BasicConstraintsValid |-> TRUE,
     KeyUsage |-> KeyUsageCertSign, ExtKeyUsage |-> {}]

LeafTemplate ==
    [PublicKey |-> NoKey, IsCA |-> FALSE, BasicConstraintsValid |-> TRUE,
     KeyUsage |-> KeyUsageDigitalSignature,
     ExtKeyUsage |-> {"clientAuth", "serverAuth"}]

\* A counter whose Add leaves it as it was.
SerialAdd_noinc(s) == s

\* serial.Add(1): the value the counter holds, and the caller gets, after it.
SerialAdd(s) == s + 1

\* createCertificate once serial.Add(1) has returned sn.  x509.CreateCertificate
\* refuses a signer that is not the parent's key (a template, the parent of a
\* self-signed root, has no key); otherwise the DER it writes, signed by priv,
\* is parsed back.
createCertificate(template, parent, pub, priv, sn) ==
    IF parent.PublicKey # NoKey /\ parent.PublicKey # priv
    THEN [crt |-> NilCert,
          err |-> errorsNew("x509: provided PrivateKey doesn't match parent's PublicKey")]
    ELSE [crt |-> ParseCertificate(
                    [SerialNumber          |-> sn,
                     PublicKey             |-> pub,
                     SignedBy              |-> priv,
                     IsCA                  |-> template.IsCA,
                     BasicConstraintsValid |-> template.BasicConstraintsValid,
                     KeyUsage              |-> template.KeyUsage,
                     ExtKeyUsage           |-> template.ExtKeyUsage]),
          err |-> NoError]

\* NewRoot with freshly generated key `key` and serial.Add(1) = sn.
NewRoot(key, sn) == createCertificate(RootTemplate, RootTemplate, key, key, sn)

NewIntermediate(ca, signer, key, sn) ==
    createCertificate(IntermediateTemplate, ca, key, signer, sn)

NewLeaf(ca, signer, key, sn) ==
    createCertificate(LeafTemplate, ca, key, signer, sn)


\* -------------------------------------------------------------------------
\* Spec: a program that mints credentials and then constructs bundles
\* -------------------------------------------------------------------------
NoTamper == [at |-> "", idx |-> -1, attr |-> "", arg |-> {}]
NoCall == [made |-> FALSE]

SeqsUpTo(S, n) == UNION {[1..k -> S] : k \in 0..n}

Certs == {issued[i].crt : i \in DOMAIN issued}
\* The signers a call is tried with: none, the key of chain[0], and the key
\* of the first credential issued.
Signers(chain) ==
    {NoKey}
    \cup {chain[i].PublicKey : i \in DOMAIN chain \cap {1}}
    \cup {issued[i].key : i \in DOMAIN issued \cap {1}}
\* The issued credentials the generator is handed as a ca: the CA ones.
CAs == {i \in DOMAIN issued : issued[i].kind # "leaf"}

\* The single-attribute changes of a certificate's parsed fields, as the
\* tests make them on a copy (root := *rootCert; root.IsCA = false): Raw stays.
Flips(c) ==
    {[attr |-> "IsCA", arg |-> {}], [attr |-> "BasicConstraintsValid", arg |-> {}]}
    \cup {[attr |-> "KeyUsage", arg |-> k] : k \in (SUBSET KeyUsageBits) \ {c.KeyUsage}}
    \cup {[attr |-> "ExtKeyUsage", arg |-> {u}] : u \in ExtKeyUsages}

Flip(c, f) ==
    CASE f.attr = "IsCA" -> [c EXCEPT !.IsCA = ~@]
      [] f.attr = "BasicConstraintsValid" -> [c EXCEPT !.BasicConstraintsValid = ~@]
      [] f.attr = "KeyUsage" -> [c EXCEPT !.KeyUsage = f.arg]
      [] f.attr = "ExtKeyUsage" ->
            [c EXCEPT !.ExtKeyUsage = (@ \ f.arg) \cup (f.arg \ @)]

\* What the variables of the other specifications hold in a specification
\* that does not use them.
Pending == [pending |-> TRUE]
GenParked  == serial = 0 /\ issued = <<>> /\ call = NoCall
LeafParked == cert = NilCert /\ verdict = Pending
PeerParked == bundle = NilBundle /\ rawCerts = <<>> /\ outcome = Pending
TlsParked  == built = NilBundle /\ handshakes = <<>>
MintParked == procs = <<>> /\ minted = <<>> /\ finished = {}
PemParked  == pemIn = Pending /\ file = Pending /\ pemOut = Pending

Init ==
    /\ serial = 0
    /\ issued = <<>>
    /\ call = NoCall
    /\ LeafParked /\ PeerParked /\ TlsParked /\ MintParked /\ PemParked

\* NewRoot(): a fresh key, the next serial, a self-signed CA certificate.
GenRoot ==
    /\ ~call.made
    /\ Len(issued) < MaxIssued
    /\ LET key == Len(issued) + 1
           sn  == SerialAdd(serial)
           r   == NewRoot(key, sn)
       IN  /\ serial' = sn
           /\ issued' = Append(issued, [crt |-> r.crt, key |-> key,
                                        kind |-> "root", ca |-> 0])
    /\ UNCHANGED <<call, leafVars, peerVars, tlsVars, mintVars, pemVars>>

\* NewIntermediate(ca, signer) with an issued CA certificate and its key.
GenIntermediate ==
    /\ ~call.made
    /\ Len(issued) < MaxIssued
    /\ \E p \in CAs :
        LET key == Len(issued) + 1
            sn  == SerialAdd(serial)
            r   == NewIntermediate(issued[p].crt, issued[p].key, key, sn)
        IN  /\ serial' = sn
            /\ issued' = Append(issued, [crt |-> r.crt, key |-> key,
                                         kind |-> "intermediate", ca |-> p])
    /\ UNCHANGED <<call, leafVars, peerVars, tlsVars, mintVars, pemVars>>

\* NewLeaf(ca, signer) with an issued CA certificate and its key.
GenLeaf ==
    /\ ~call.made
    /\ Len(issued) < MaxIssued
    /\ \E p \in CAs :
        LET key == Len(issued) + 1
            sn  == SerialAdd(serial)
            r   == NewLeaf(issued[p].crt, issued[p].key, key, sn)
        IN  /\ serial' = sn
            /\ issued' = Append(issued, [crt |-> r.crt, key |-> key,
                                         kind |-> "leaf", ca |-> p])
    /\ UNCHANGED <<call, leafVars, peerVars, tlsVars, mintVars, pemVars>>

\* NewBundle(chain, signer, roots) on any arguments built from the issued
\* credentials, a nil signer included.  NewBundle keeps nothing between
\* calls, so the program's one call stands for each of its calls.
NewBundleCall ==
    /\ ~call.made
    /\ \E chain \in SeqsUpTo(Certs, MaxChain),
          roots \in SeqsUpTo(Certs, MaxRoots) : \E signer \in Signers(chain) :
        call' = [made |-> TRUE, chain |-> chain, signer |-> signer,
                 roots |-> roots, tamper |-> NoTamper,
                 ret |-> NewBundle(chain, signer, roots)]
    /\ UNCHANGED <<serial, issued, leafVars, peerVars, tlsVars, mintVars, pemVars>>

\* The tests' negative cases: arguments NewBundle accepts, with one attribute
\* of one certificate of the chain changed on a copy.
TamperedChainCall ==
    /\ ~call.made
    /\ \E chain \in SeqsUpTo(Certs, MaxChain),
          roots \in SeqsUpTo(Certs, MaxRoots) : \E signer \in Signers(chain) :
        /\ NewBundle(chain, signer, roots).err = NoError
        /\ \E i \in DOMAIN chain : \E f \in Flips(chain[i]) :
            LET tchain == [chain EXCEPT ![i] = Flip(@, f)]
            IN  call' = [made |-> TRUE, chain |-> tchain, signer |-> signer,
                         roots |-> roots,
                         tamper |-> [at |-> "chain", idx |-> i - 1,
                                     attr |-> f.attr, arg |-> f.arg],
                         ret |-> NewBundle(tchain, signer, roots)]
    /\ UNCHANGED <<serial, issued, leafVars, peerVars, tlsVars, mintVars, pemVars>>

\* The same with one attribute of one root changed.
TamperedRootCall ==
    /\ ~call.made
    /\ \E chain \in SeqsUpTo(Certs, MaxChain),
          roots \in SeqsUpTo(Certs, MaxRoots) : \E signer \in Signers(chain) :
        /\ NewBundle(chain, signer, roots).err = NoError
        /\ \E i \in DOMAIN roots : \E f \in Flips(roots[i]) :
            LET troots == [roots EXCEPT ![i] = Flip(@, f)]
            IN  call' = [made |-> TRUE, chain |-> chain, signer |-> signer,
                         roots |-> troots,
                         tamper |-> [at |-> "root", idx |-> i - 1,
                                     attr |-> f.attr, arg |-> f.arg],
                         ret |-> NewBundle(chain, signer, troots)]
    /\ UNCHANGED <<serial, issued, leafVars, peerVars, tlsVars, mintVars, pemVars>>

Next ==
    \/ GenRoot
    \/ GenIntermediate
    \/ GenLeaf
    \/ NewBundleCall
    \/ TamperedChainCall
    \/ TamperedRootCall

Spec == Init /\ [][Next]_vars

\* -------------------------------------------------------------------------
\* Properties of Spec
\* -------------------------------------------------------------------------
\* r, i, l name a generated root, an intermediate NewIntermediate signed with
\* it, and a leaf NewLeaf signed with that intermediate.
GeneratedPath(r, i, l) ==
    /\ issued[r].kind = "root"
    /\ issued[i].kind = "intermediate" /\ issued[i].ca = r
    /\ issued[l].kind = "leaf" /\ issued[l].ca = i

\* The call NewBundle([L, I], signerOf(L), [R]) of a generated path.
CallOfPath(r, i, l) ==
    /\ call.made
    /\ call.tamper = NoTamper
    /\ call.chain = <<issued[l].crt, issued[i].crt>>
    /\ call.roots = <<issued[r].crt>>
    /\ call.signer = issued[l].key

\* C1: for a generated root R, intermediate I signed by R and leaf L signed by
\* I, NewBundle([L, I], signerOf(L), [R]) succeeds, and the bundle's leaf is L
\* and its offered chain is [L, I] in that order.
C1_GeneratedPathAccepted ==
    \A r \in DOMAIN issued, i \in DOMAIN issued, l \in DOMAIN issued :
        (GeneratedPath(r, i, l) /\ CallOfPath(r, i, l)) =>
            /\ call.ret.err = NoError
            /\ call.ret.bundle # NilBundle
            /\ call.ret.bundle.cert.Leaf = issued[l].crt
            /\ call.ret.bundle.cert.Certificate =
                    <<issued[l].crt.Raw, issued[i].crt.Raw>>

\* C1's case: the call was made on a generated path and returned.
C1_Witness ==
    \E r \in DOMAIN issued, i \in DOMAIN issued, l \in DOMAIN issued :
        GeneratedPath(r, i, l) /\ CallOfPath(r, i, l) /\ call.ret.err = NoError

\* C2 as stated: an empty chain fails with EmptyChain and an empty root list
\* fails with EmptyRoots, whatever the other arguments are.
C2_AsStated ==
    call.made =>
        /\ call.chain = <<>> =>
              call.ret = [bundle |-> NilBundle, err |-> errorsNew("trust: empty chain")]
        /\ call.roots = <<>> =>
              call.ret = [bundle |-> NilBundle, err |-> errorsNew("trust: empty roots")]

\* C2 amended: an empty chain fails with EmptyChain whatever the other
\* arguments are; an empty root list fails with EmptyRoots whenever the chain
\* is not empty (with both empty the error is EmptyChain); no bundle either way.
C2_EmptyArguments ==
    call.made =>
        /\ call.chain = <<>> =>
              call.ret = [bundle |-> NilBundle, err |-> errorsNew("trust: empty chain")]
        /\ (call.roots = <<>> /\ call.chain # <<>>) =>
              call.ret = [bundle |-> NilBundle, err |-> errorsNew("trust: empty roots")]

\* C2's case: an empty root list under a chain of two that NewBundle would
\* otherwise have to judge, with a nil signer.
C2_Witness ==
    /\ call.made
    /\ call.roots = <<>>
    /\ Len(call.chain) = 2
    /\ call.signer = NoKey
    /\ call.ret.err = errorsNew("trust: empty roots")

\* C3: changing exactly one policy attribute of exactly one certificate of an
\* accepted input makes NewBundle fail, return no bundle, and name the
\* position of the changed certificate.
C3_SingleChangeRejected ==
    (call.made /\ call.tamper # NoTamper) =>
        /\ call.ret.bundle = NilBundle
        /\ call.ret.err # NoError
        /\ call.ret.err.at = call.tamper.at
        /\ call.ret.err.idx = call.tamper.idx

\* C5: a bundle is returned only for a signer that is the key of chain[0];
\* any other signer fails with KeyBindingMismatch.
C5_SignerBoundToLeaf ==
    (call.made /\ call.chain # <<>>) =>
        /\ call.ret.err = NoError => call.signer = call.chain[1].PublicKey
        /\ call.signer # call.chain[1].PublicKey => call.ret.bundle = NilBundle

\* -------------------------------------------------------------------------
\* SpecLeaf: validateLeaf applied to a certificate of any policy
\* -------------------------------------------------------------------------
PolicyCertificates ==
    {ParseCertificate(d) :
        d \in [SerialNumber : {1}, PublicKey : {1}, SignedBy : {1},
               IsCA : BOOLEAN, BasicConstraintsValid : BOOLEAN,
               KeyUsage : SUBSET KeyUsageBits,
               ExtKeyUsage : SUBSET ExtKeyUsages]}

InitLeaf ==
    /\ cert \in PolicyCertificates
    /\ verdict = Pending
    /\ GenParked /\ PeerParked /\ TlsParked /\ MintParked /\ PemParked

ValidateLeaf ==
    /\ verdict = Pending
    /\ verdict' = validateLeaf(cert)
    /\ UNCHANGED <<cert, genVars, peerVars, tlsVars, mintVars, pemVars>>

NextLeaf == ValidateLeaf

SpecLeaf == InitLeaf /\ [][NextLeaf]_vars

\* C4: validateLeaf accepts a certificate if and only if basicConstraintsValid
\* holds, isCA does not, keyUsage is exactly {digitalSignature} and
\* extendedKeyUsage is exactly {client-auth, server-auth}: both present and
\* no other value.
C4_LeafPolicyExact ==
    verdict # Pending =>
        (verdict = NoError <=>
            /\ cert.BasicConstraintsValid
            /\ ~cert.IsCA
            /\ cert.KeyUsage = {"digitalSignature"}
            /\ cert.ExtKeyUsage = {"clientAuth", "serverAuth"})

\* -------------------------------------------------------------------------
\* SpecVerify: verifyPeerCertificate applied to what a peer can send
\* -------------------------------------------------------------------------
MaxPeer == 2

\* The credentials of TestNewBundle and the bundle it constructs from them.
RefRoot == NewRoot(1, 1).crt
RefInt  == NewIntermediate(RefRoot, 1, 2, 2).crt
RefLeaf == NewLeaf(RefInt, 2, 3, 3).crt
RefBundle == NewBundle(<<RefLeaf, RefInt>>, 3, <<RefRoot>>).bundle

\* Bytes that are no certificate.
Garbage == [garbage |-> TRUE]

\* The DER of the certificates a peer may hold: for the keys 2 and 3, any
\* role policy, signed by the root's key 1, by the intermediate's key 2 or by
\* a key the bundle does not know.
PeerDERs ==
    {[d EXCEPT !.SerialNumber = d.PublicKey] :
        d \in [SerialNumber : {0}, PublicKey : {2, 3}, SignedBy : {1, 2, 9},
               IsCA : BOOLEAN, BasicConstraintsValid : BOOLEAN,
               KeyUsage : {{"certSign"}, {"digitalSignature"},
                           {"digitalSignature", "keyEncipherment"}},
               ExtKeyUsage : {{}, {"clientAuth", "serverAuth"}, {"clientAuth"}}]}

Wire == PeerDERs \cup {Garbage}

\* Whether x509.ParseCertificate(raw) returns a certificate.
parses(raw) == raw # Garbage

\* Bundle.verifyPeerCertificate(rawCerts, _): how the call ends.
verifyPeerCertificate(b, raws) ==
    IF \E i \in DOMAIN raws : ~parses(raws[i])
    THEN [kind |-> "return", err |-> errorsNew("x509: malformed certificate")]
    ELSE LET chain == [i \in DOMAIN raws |-> ParseCertificate(raws[i])]
             v == verifyChain(chain, b.roots)
         IN  IF v.err = IndexOutOfRange
             THEN [kind |-> "panic", err |-> v.err]
             ELSE [kind |-> "return", err |-> v.err]

InitVerify ==
    /\ bundle = RefBundle
    /\ rawCerts \in SeqsUpTo(Wire, MaxPeer)
    /\ outcome = Pending
    /\ GenParked /\ LeafParked /\ TlsParked /\ MintParked /\ PemParked

VerifyPeer ==
    /\ outcome = Pending
    /\ outcome' = verifyPeerCertificate(bundle, rawCerts)
    /\ UNCHANGED <<bundle, rawCerts, genVars, leafVars, tlsVars, mintVars, pemVars>>

NextVerify == VerifyPeer

SpecVerify == InitVerify /\ [][NextVerify]_vars

\* What the claim lets through: a non-empty list whose elements all decode,
\* whose element 0 satisfies the leaf policy, whose elements i >= 1 satisfy
\* the CA policy against the bundle's roots, and whose element 0 passes path
\* validation against those roots with the others as intermediates.
PeerAcceptable(b, raws) ==
    /\ raws # <<>>
    /\ \A i \in DOMAIN raws : parses(raws[i])
    /\ LET chain == [i \in DOMAIN raws |-> ParseCertificate(raws[i])]
       IN  /\ validateLeaf(chain[1]) = NoError
           /\ \A i \in 2..Len(chain) : verifyIntermediate(chain[i], b.roots) = NoError
           /\ Verify(chain[1], intermediatesOf(chain), b.roots) = NoError

\* C6: verifyPeerCertificate fails closed: it returns success only for an
\* acceptable list, and for every other list, an undecodable element and the
\* empty list included, it returns an error: it never ends without a verdict.
C6_FailsClosed ==
    outcome # Pending =>
        /\ outcome.kind = "return"
        /\ (outcome.err = NoError <=> PeerAcceptable(bundle, rawCerts))

\* -------------------------------------------------------------------------
\* SpecTLS: concurrent handshakes on one bundle's tls.Config
\* -------------------------------------------------------------------------
MaxHandshakes == 2

Handshakes == 1..MaxHandshakes
ServerNames == {"a.example", "b.example"}
NoCertificate == [nil |-> TRUE]

\* A second credential set: a leaf signed by the root itself.
RefLeaf2 == NewLeaf(RefRoot, 1, 4, 4).crt
RefBundle2 == NewBundle(<<RefLeaf2>>, 4, <<RefRoot>>).bundle

\* What the peers of these handshakes present.  crypto/tls hands the
\* callback the peer's list only when the peer sent one: under
\* RequireAnyClientCert and TLS 1.3 an empty list ends the handshake before.
Presented ==
    { <<RefLeaf.Raw, RefInt.Raw>>,
      <<RefLeaf2.Raw>>,
      <<RefLeaf.Raw>>,
      <<RefInt.Raw>>,
      <<Garbage>>,
      <<RefLeaf.Raw, Garbage>> }

\* Bundle.getCertificate(*tls.ClientHelloInfo) with hello.ServerName = name.
getCertificate(b, name) == b.cert

\* Bundle.getClientCertificate(*tls.CertificateRequestInfo).
getClientCertificate(b) == b.cert

Idle == [pc |-> "idle", role |-> "", name |-> "", got |-> NoCertificate,
         raws |-> <<>>, chain |-> <<>>, err |-> NoError]

InitTLS ==
    /\ bundle \in {RefBundle, RefBundle2}
    /\ built = bundle
    /\ handshakes = [h \in Handshakes |-> Idle]
    /\ rawCerts = <<>> /\ outcome = Pending
    /\ GenParked /\ LeafParked /\ MintParked /\ PemParked

\* A handshake in which the bundle's owner is the server: GetCertificate.
OfferAsServer(h) ==
    /\ handshakes[h].pc = "idle"
    /\ \E name \in ServerNames :
        handshakes' = [handshakes EXCEPT ![h] =
            [@ EXCEPT !.pc = "offered", !.role = "server", !.name = name,
                      !.got = getCertificate(bundle, name)]]
    /\ UNCHANGED <<bundle, built, rawCerts, outcome, genVars, leafVars, mintVars, pemVars>>

\* A handshake in which the bundle's owner is the client: GetClientCertificate.
OfferAsClient(h) ==
    /\ handshakes[h].pc = "idle"
    /\ handshakes' = [handshakes EXCEPT ![h] =
            [@ EXCEPT !.pc = "offered", !.role = "client",
                      !.got = getClientCertificate(bundle)]]
    /\ UNCHANGED <<bundle, built, rawCerts, outcome, genVars, leafVars, mintVars, pemVars>>

\* crypto/tls calls VerifyPeerCertificate with what the peer presented.
PeerPresents(h) ==
    /\ handshakes[h].pc = "offered"
    /\ \E raws \in Presented :
        handshakes' = [handshakes EXCEPT ![h] =
            [@ EXCEPT !.pc = "parsing", !.raws = raws, !.chain = <<>>]]
    /\ UNCHANGED <<bundle, built, rawCerts, outcome, genVars, leafVars, mintVars, pemVars>>

\* One round of verifyPeerCertificate's loop: parse the next element, and
\* return the error if it does not parse.
ParseNext(h) ==
    /\ handshakes[h].pc = "parsing"
    /\ Len(handshakes[h].chain) < Len(handshakes[h].raws)
    /\ LET raw == handshakes[h].raws[Len(handshakes[h].chain) + 1]
       IN  handshakes' = [handshakes EXCEPT ![h] =
                IF parses(raw)
                THEN [@ EXCEPT !.chain = Append(@, ParseCertificate(raw))]
                ELSE [@ EXCEPT !.pc = "done",
                               !.err = errorsNew("x509: malformed certificate")]]
    /\ UNCHANGED <<bundle, built, rawCerts, outcome, genVars, leafVars, mintVars, pemVars>>

\* verifyPeerCertificate's call of verifyChain(chain, b.roots) and its return.
VerifyPresented(h) ==
    /\ handshakes[h].pc = "parsing"
    /\ Len(handshakes[h].chain) = Len(handshakes[h].raws)
    /\ handshakes' = [handshakes EXCEPT ![h] =
            [@ EXCEPT !.pc = "done",
                      !.err = verifyChain(handshakes[h].chain,
                                          bundle.roots).err]]
    /\ bundle' = [bundle EXCEPT
                    !.roots = rootsAfterVerifyChain(handshakes[h].chain, @)]
    /\ UNCHANGED <<built, rawCerts, outcome, genVars, leafVars, mintVars, pemVars>>

\* The handshake ends, completed or aborted.
HandshakeEnds(h) ==
    /\ handshakes[h].pc = "done"
    /\ handshakes' = [handshakes EXCEPT ![h] = Idle]
    /\ UNCHANGED <<bundle, built, rawCerts, outcome, genVars, leafVars, mintVars, pemVars>>

NextTLS ==
    \E h \in Handshakes :
        \/ OfferAsServer(h)
        \/ OfferAsClient(h)
        \/ PeerPresents(h)
        \/ ParseNext(h)
        \/ VerifyPresented(h)
        \/ HandshakeEnds(h)

SpecTLS == InitTLS /\ [][NextTLS]_vars

\* C9: whatever the concurrent handshakes have done, the bundle's chain,
\* private key and root set are those of its construction, and every offer
\* made so far returned that identity.
C9_BundleImmutable ==
    /\ bundle = built
    /\ \A h \in DOMAIN handshakes :
          handshakes[h].pc # "idle" => handshakes[h].got = built.cert

\* C9's case: one handshake has accepted a presented chain of two while
\* another, offered as server under a name, has rejected its peer's.
C9_Witness ==
    \E g \in DOMAIN handshakes, h \in DOMAIN handshakes :
        /\ g # h
        /\ handshakes[g].pc = "done" /\ handshakes[g].err = NoError
        /\ Len(handshakes[g].chain) = 2
        /\ handshakes[h].pc = "done" /\ handshakes[h].err # NoError
        /\ handshakes[h].role = "server"

\* -------------------------------------------------------------------------
\* SpecSerial: goroutines minting credentials concurrently
\* -------------------------------------------------------------------------
MaxProcs == 2
MaxMinted == 3

Procs == 1..MaxProcs
Resting == [pc |-> "idle", kind |-> "", before |-> {}, sn |-> 0]

\* The issuances begun so far.
Begun == Len(minted) + Cardinality({p \in DOMAIN procs : procs[p].pc = "keyed"})

InitSerial ==
    /\ serial = 0
    /\ issued = <<>> /\ call = NoCall
    /\ procs = [p \in Procs |-> Resting]
    /\ minted = <<>>
    /\ finished = {}
    /\ LeafParked /\ PeerParked /\ TlsParked /\ PemParked

\* NewRoot, NewIntermediate or NewLeaf is entered: the key is generated and
\* the template built (trustgen.go:18-30, 41-53, 64-81).
Begin(p) ==
    /\ procs[p].pc = "idle"
    /\ Begun < MaxMinted
    /\ \E kind \in {"root", "intermediate", "leaf"} :
        procs' = [procs EXCEPT ![p] =
            [pc |-> "keyed", kind |-> kind, before |-> finished, sn |-> 0]]
    /\ UNCHANGED <<serial, minted, finished, issued, call,
                   leafVars, peerVars, tlsVars, pemVars>>

\* createCertificate's template.SerialNumber = big.NewInt(serial.Add(1)):
\* one atomic read-modify-write of the counter.
AddSerial(p) ==
    /\ procs[p].pc = "keyed"
    /\ serial' = SerialAdd(serial)
    /\ procs' = [procs EXCEPT ![p] = [@ EXCEPT !.pc = "numbered", !.sn = serial']]
    /\ minted' = Append(minted, [sn |-> serial', kind |-> procs[p].kind,
                                 before |-> procs[p].before])
    /\ UNCHANGED <<finished, issued, call, leafVars, peerVars, tlsVars, pemVars>>

\* x509.CreateCertificate, x509.ParseCertificate and the return.
Return(p) ==
    /\ procs[p].pc = "numbered"
    /\ finished' = finished \cup {procs[p].sn}
    /\ procs' = [procs EXCEPT ![p] = Resting]
    /\ UNCHANGED <<serial, minted, issued, call, leafVars, peerVars, tlsVars, pemVars>>

NextSerial ==
    \E p \in Procs :
        \/ Begin(p)
        \/ AddSerial(p)
        \/ Return(p)

SpecSerial == InitSerial /\ [][NextSerial]_vars

\* C7: no two issued certificates receive the same serial, and a certificate
\* whose issuance starts after another's has completed receives a strictly
\* larger serial, in any interleaving of NewRoot, NewIntermediate and NewLeaf.
C7_SerialsDistinctIncreasing ==
    /\ \A i \in DOMAIN minted, j \in DOMAIN minted :
          i # j => minted[i].sn # minted[j].sn
    /\ \A i \in DOMAIN minted : \A s \in minted[i].before : minted[i].sn > s

\* C7's case: two issuances of different kinds hold their serials at the same
\* time, both begun after an earlier issuance had returned.
C7_Witness ==
    \E p \in DOMAIN procs, q \in DOMAIN procs :
        /\ p # q
        /\ procs[p].pc = "numbered" /\ procs[q].pc = "numbered"
        /\ procs[p].kind # procs[q].kind
        /\ procs[p].before # {} /\ procs[q].before # {}

\* -------------------------------------------------------------------------
\* PEMCodec: encoding/pem and the DER inside it, as trust and trustgen use them
\* -------------------------------------------------------------------------
\* Here a certificate is its Raw alone, and Raw is a string of bytes: a DER
\* SEQUENCE, the tag, the length of the content, the content.
MaxDer == 2
MaxCerts == 2
\* The bytes one line of a PEM block carries.
LineBytes == 2

SeqTag == 48
ContentBytes == {1, SeqTag}

DerOf(content) == <<SeqTag, Len(content)>> \o content

PemCertificates ==
    {[Raw |-> DerOf(c)] : c \in UNION {[1..n -> ContentBytes] : n \in 1..MaxDer}}

NilBlock == [nil |-> TRUE]
BeginLine(t) == [line |-> "BEGIN", type |-> t, data |-> <<>>]
EndLine(t)   == [line |-> "END", type |-> t, data |-> <<>>]
DataLine(b)  == [line |-> "DATA", type |-> "", data |-> b]
\* A line of text that is neither armor nor base64.
TextLine     == [line |-> "TEXT", type |-> "", data |-> <<>>]

\* The base64 body of a block, broken into lines.
RECURSIVE DataLines(_)
DataLines(bytes) ==
    IF bytes = <<>> THEN <<>>
    ELSE IF Len(bytes) <= LineBytes THEN <<DataLine(bytes)>>
    ELSE <<DataLine(SubSeq(bytes, 1, LineBytes))>>
            \o DataLines(SubSeq(bytes, LineBytes + 1, Len(bytes)))

\* pem.Encode / pem.EncodeToMemory of one block.
pemEncode(blk) ==
    <<BeginLine(blk.Type)>> \o DataLines(blk.Bytes) \o <<EndLine(blk.Type)>>

RECURSIVE JoinData(_)
JoinData(lines) ==
    IF lines = <<>> THEN <<>> ELSE Head(lines).data \o JoinData(Tail(lines))

Least(S) == CHOOSE i \in S : \A j \in S : i <= j

\* pem.Decode's search: the first BEGIN line whose body is base64 up to an END
\* line of the same type; a BEGIN line that is not followed so is passed over.
RECURSIVE pemScan(_)
pemScan(data) ==
    LET begins == {i \in DOMAIN data : data[i].line = "BEGIN"}
    IN  IF begins = {} THEN [blk |-> NilBlock, rest |-> <<>>]
        ELSE LET b == Least(begins)
                 after == SubSeq(data, b + 1, Len(data))
                 stops == {i \in DOMAIN after : after[i].line # "DATA"}
             IN  IF stops = {} THEN pemScan(after)
                 ELSE LET e == Least(stops)
                      IN  IF after[e].line = "END" /\ after[e].type = data[b].type
                          THEN [blk  |-> [Type  |-> data[b].type,
                                          Bytes |-> JoinData(SubSeq(after, 1, e - 1))],
                                rest |-> SubSeq(after, e + 1, Len(after))]
                          ELSE pemScan(after)

\* pem.Decode(data): the next block and what follows it, or nil and data.
pemDecode(data) ==
    IF pemScan(data).blk = NilBlock
    THEN [blk |-> NilBlock, rest |-> data]
    ELSE pemScan(data)

\* trustgen.PEMEncodeCertificates(certs...).
RECURSIVE PEMEncodeCertificates(_)
PEMEncodeCertificates(certs) ==
    IF certs = <<>> THEN <<>>
    ELSE pemEncode([Type |-> "CERTIFICATE", Bytes |-> Head(certs).Raw])
            \o PEMEncodeCertificates(Tail(certs))

\* x509.MarshalPKCS8PrivateKey and x509.ParsePKCS8PrivateKey.
MarshalPKCS8PrivateKey(key) == DerOf(<<key>>)

ParsePKCS8PrivateKey(bytes) ==
    IF Len(bytes) = 3 /\ bytes[1] = SeqTag /\ bytes[2] = 1 /\ bytes[3] # SeqTag
    THEN [key |-> bytes[3], err |-> NoError]
    ELSE [key |-> NoKey, err |-> errorsNew("x509: failed to parse private key")]

\* trustgen.PEMEncodePrivateKey(key).
PEMEncodePrivateKey(key) ==
    pemEncode([Type |-> "PRIVATE KEY", Bytes |-> MarshalPKCS8PrivateKey(key)])

\* x509.ParseCertificates(der): the certificates of a concatenation of DER.
RECURSIVE ParseCertificates(_)
ParseCertificates(der) ==
    IF der = <<>> THEN [certs |-> <<>>, err |-> NoError]
    ELSE IF Len(der) < 2 \/ der[1] # SeqTag \/ der[2] > Len(der) - 2
    THEN [certs |-> <<>>, err |-> errorsNew("x509: malformed certificate")]
    ELSE LET n == 2 + der[2]
             r == ParseCertificates(SubSeq(der, n + 1, Len(der)))
         IN  IF r.err # NoError THEN r
             ELSE [certs |-> <<[Raw |-> SubSeq(der, 1, n)]>> \o r.certs,
                   err   |-> NoError]

\* LoadCertificates' loop with a block of another type ending it.
RECURSIVE certificateDER_break(_)
certificateDER_break(contents) ==
    LET d == pemDecode(contents)
    IN  IF d.blk = NilBlock THEN <<>>
        ELSE IF d.blk.Type # "CERTIFICATE" THEN <<>>
        ELSE d.blk.Bytes \o certificateDER_break(d.rest)

\* LoadCertificates' loop: the bytes of the CERTIFICATE blocks, in file order.
RECURSIVE certificateDER(_)
certificateDER(contents) ==
    LET d == pemDecode(contents)
    IN  IF d.blk = NilBlock THEN <<>>
        ELSE IF d.blk.Type # "CERTIFICATE" THEN certificateDER(d.rest)
        ELSE d.blk.Bytes \o certificateDER(d.rest)

\* LoadCertificates(name) for a file that holds `contents`.
LoadCertificates(contents) == ParseCertificates(certificateDER(contents))

\* LoadPrivateKey(name) for a file that holds `contents`.
LoadPrivateKey(contents) ==
    LET blk == pemDecode(contents).blk
    IN  IF blk = NilBlock
        THEN [key |-> NoKey, err |-> errorsNew("trust: load: no private key found")]
        ELSE IF blk.Type # "PRIVATE KEY"
        THEN [key |-> NoKey, err |-> errorsNew("trust: load: no private key found")]
        ELSE ParsePKCS8PrivateKey(blk.Bytes)

\* -------------------------------------------------------------------------
\* SpecPEM: files are written and loaded
\* -------------------------------------------------------------------------
MaxKeyItems == 2

\* Blocks of other types, as they may stand in a certificate file.
OtherBlocks ==
    { PEMEncodePrivateKey(1),
      pemEncode([Type |-> "X509 CRL", Bytes |-> DerOf(<<1>>)]) }

\* The lines of PEMEncodeCertificates(certs) with `extra` put before the
\* block of certs[k + 1] (after the last block when k = Len(certs)).
WithBlockAt(certs, k, extra) ==
    PEMEncodeCertificates(SubSeq(certs, 1, k)) \o extra
        \o PEMEncodeCertificates(SubSeq(certs, k + 1, Len(certs)))

\* What a key file may be made of.
KeyItems ==
    { PEMEncodePrivateKey(1),
      pemEncode([Type |-> "PRIVATE KEY", Bytes |-> <<1>>]),
      pemEncode([Type |-> "CERTIFICATE", Bytes |-> DerOf(<<1>>)]),
      <<TextLine>> }

RECURSIVE Flatten(_)
Flatten(items) ==
    IF items = <<>> THEN <<>> ELSE Head(items) \o Flatten(Tail(items))

InitPEM ==
    /\ pemIn \in [certs : SeqsUpTo(PemCertificates, MaxCerts), key : {1}]
    /\ file = Pending
    /\ pemOut = Pending
    /\ GenParked /\ LeafParked /\ PeerParked /\ TlsParked /\ MintParked

\* os.WriteFile(certFile, trustgen.PEMEncodeCertificates(certs...)).
WriteCertFile ==
    /\ file = Pending
    /\ file' = [name |-> "cert.pem", contents |-> PEMEncodeCertificates(pemIn.certs)]
    /\ UNCHANGED <<pemIn, pemOut, genVars, leafVars, peerVars, tlsVars, mintVars>>

\* A certificate file in which a block of another type stands among the
\* CERTIFICATE blocks.
WriteMixedCertFile ==
    /\ file = Pending
    /\ \E k \in 0..Len(pemIn.certs), extra \in OtherBlocks :
        file' = [name |-> "cert.pem",
                 contents |-> WithBlockAt(pemIn.certs, k, extra)]
    /\ UNCHANGED <<pemIn, pemOut, genVars, leafVars, peerVars, tlsVars, mintVars>>

\* A key file of any content; os.WriteFile(keyFile,
\* trustgen.PEMEncodePrivateKey(key)) is one of them.
WriteKeyFile ==
    /\ file = Pending
    /\ \E items \in SeqsUpTo(KeyItems, MaxKeyItems) :
        file' = [name |-> "key.pem", contents |-> Flatten(items)]
    /\ UNCHANGED <<pemIn, pemOut, genVars, leafVars, peerVars, tlsVars, mintVars>>

LoadCertificatesCall ==
    /\ file # Pending
    /\ pemOut = Pending
    /\ LET r == LoadCertificates(file.contents)
       IN  pemOut' = [op |-> "LoadCertificates", certs |-> r.certs,
                      key |-> NoKey, err |-> r.err]
    /\ UNCHANGED <<pemIn, file, genVars, leafVars, peerVars, tlsVars, mintVars>>

LoadPrivateKeyCall ==
    /\ file # Pending
    /\ pemOut = Pending
    /\ LET r == LoadPrivateKey(file.contents)
       IN  pemOut' = [op |-> "LoadPrivateKey", certs |-> <<>>,
                      key |-> r.key, err |-> r.err]
    /\ UNCHANGED <<pemIn, file, genVars, leafVars, peerVars, tlsVars, mintVars>>

NextPEM ==
    \/ WriteCertFile
    \/ WriteMixedCertFile
    \/ WriteKeyFile
    \/ LoadCertificatesCall
    \/ LoadPrivateKeyCall

SpecPEM == InitPEM /\ [][NextPEM]_vars

\* C8: LoadPrivateKey succeeds only when the file consists of exactly one
\* private-key block, which is its first block, and of nothing else.
C8_KeyFileExactlyOneBlock ==
    (pemOut # Pending /\ pemOut.op = "LoadPrivateKey" /\ pemOut.err = NoError) =>
        \E k \in 1..(SeqTag - 1) : file.contents = PEMEncodePrivateKey(k)

\* C10: decoding the text PEMEncodeCertificates(C) produced returns exactly
\* the certificates of C in the same order, byte for byte, also when blocks
\* of another type stand among them.
C10_PEMRoundTrip ==
    (pemOut # Pending /\ pemOut.op = "LoadCertificates" /\ file.name = "cert.pem") =>
        /\ pemOut.err = NoError
        /\ pemOut.certs = pemIn.certs

\* C10's case: two different certificates, the first longer than a line, with
\* a block of another type between them, have been loaded back.
C10_Witness ==
    /\ pemOut # Pending /\ pemOut.op = "LoadCertificates"
    /\ file.name = "cert.pem"
    /\ Len(pemIn.certs) = 2
    /\ pemIn.certs[1] # pemIn.certs[2]
    /\ Len(pemIn.certs[1].Raw) > LineBytes
    /\ file.contents = WithBlockAt(pemIn.certs, 1, PEMEncodePrivateKey(1))
    /\ pemOut.certs = pemIn.certs

\* -------------------------------------------------------------------------
\* SpecDeep: hierarchies with intermediates under intermediates, and
\* verifyChain on chains of them
\* -------------------------------------------------------------------------
MaxDeepIssued == 4
MaxDeepChain == 3
MaxDeepRoots == 1

\* The issued certificates NewBundle lets into its root pool (bundle.go:30-39).
RootCerts == {c \in Certs : verifyRoot(c) = NoError}

InitDeep ==
    /\ serial = 0
    /\ issued = <<>>
    /\ call = NoCall
    /\ LeafParked /\ PeerParked /\ TlsParked /\ MintParked /\ PemParked

DeepRoot ==
    /\ ~call.made
    /\ Len(issued) < MaxDeepIssued
    /\ LET key == Len(issued) + 1
           sn  == SerialAdd(serial)
           r   == NewRoot(key, sn)
       IN  /\ serial' = sn
           /\ issued' = Append(issued, [crt |-> r.crt, key |-> key,
                                        kind |-> "root", ca |-> 0])
    /\ UNCHANGED <<call, leafVars, peerVars, tlsVars, mintVars, pemVars>>

\* NewIntermediate(ca, signer) where ca is a root or another intermediate.
DeepIntermediate ==
    /\ ~call.made
    /\ Len(issued) < MaxDeepIssued
    /\ \E p \in CAs :
        LET key == Len(issued) + 1
            sn  == SerialAdd(serial)
            r   == NewIntermediate(issued[p].crt, issued[p].key, key, sn)
        IN  /\ serial' = sn
            /\ issued' = Append(issued, [crt |-> r.crt, key |-> key,
                                         kind |-> "intermediate", ca |-> p])
    /\ UNCHANGED <<call, leafVars, peerVars, tlsVars, mintVars, pemVars>>

DeepLeaf ==
    /\ ~call.made
    /\ Len(issued) < MaxDeepIssued
    /\ \E p \in CAs :
        LET key == Len(issued) + 1
            sn  == SerialAdd(serial)
            r   == NewLeaf(issued[p].crt, issued[p].key, key, sn)
        IN  /\ serial' = sn
            /\ issued' = Append(issued, [crt |-> r.crt, key |-> key,
                                         kind |-> "leaf", ca |-> p])
    /\ UNCHANGED <<call, leafVars, peerVars, tlsVars, mintVars, pemVars>>

\* verifyChain(chain, rootPool) as NewBundle reaches it: the chain is not
\* empty, the roots are not empty and each has passed verifyRoot.
VerifyChainCall ==
    /\ ~call.made
    /\ \E chain \in SeqsUpTo(Certs, MaxDeepChain) \ {<<>>},
          roots \in SeqsUpTo(RootCerts, MaxDeepRoots) \ {<<>>} :
        call' = [made |-> TRUE, chain |-> chain, roots |-> roots,
                 ret |-> verifyChain(chain, AddCerts(<<>>, roots))]
    /\ UNCHANGED <<serial, issued, leafVars, peerVars, tlsVars, mintVars, pemVars>>

NextDeep ==
    \/ DeepRoot
    \/ DeepIntermediate
    \/ DeepLeaf
    \/ VerifyChainCall

SpecDeep == InitDeep /\ [][NextDeep]_vars

\* r, i1, i2, l name a generated root, an intermediate issued by it, an
\* intermediate issued by that intermediate, and a leaf issued by the latter.
DeepPath(r, i1, i2, l) ==
    /\ issued[r].kind = "root"
    /\ issued[i1].kind = "intermediate" /\ issued[i1].ca = r
    /\ issued[i2].kind = "intermediate" /\ issued[i2].ca = i1
    /\ issued[l].kind = "leaf" /\ issued[l].ca = i2

\* The call verifyChain([L, I2, I1], {R}) has been made.
CallOfDeepPath(r, i1, i2, l) ==
    /\ call.made
    /\ call.chain = <<issued[l].crt, issued[i2].crt, issued[i1].crt>>
    /\ call.roots = <<issued[r].crt>>

\* The CA policy on a certificate's own fields.
CAPolicy(c) ==
    /\ validateCertificate(c) = NoError
    /\ c.IsCA /\ c.KeyUsage = KeyUsageCertSign /\ c.ExtKeyUsage = {}

\* C11: verifyChain accepts a chain only if each chain[i], i >= 1, is issued
\* directly by one of the roots; a chain [L, I2, I1] with L issued by I2, I2
\* by I1 and I1 by the root R is rejected with an error at chain index 1.
C11_IntermediatesAgainstRootsAlone ==
    call.made =>
        /\ call.ret.err = NoError =>
            \A i \in 2..Len(call.chain) : \E j \in DOMAIN call.roots :
                CheckSignatureFrom(call.chain[i], call.roots[j])
        /\ \A r \in DOMAIN issued, i1 \in DOMAIN issued,
              i2 \in DOMAIN issued, l \in DOMAIN issued :
                (DeepPath(r, i1, i2, l) /\ CallOfDeepPath(r, i1, i2, l)) =>
                    /\ call.ret.leaf = NilCert
                    /\ call.ret.err.at = "chain"
                    /\ call.ret.err.idx = 1

\* C11, as far as the code goes: an accepted chain's chain[i], i >= 1, is
\* each a member of the root set or issued directly by a member of it, and
\* the chain [L, I2, I1] under the root R is rejected at chain index 1.
C11_InRootSetOrIssuedByIt ==
    call.made =>
        /\ call.ret.err = NoError =>
            \A i \in 2..Len(call.chain) : \E j \in DOMAIN call.roots :
                \/ call.chain[i].Raw = call.roots[j].Raw
                \/ CheckSignatureFrom(call.chain[i], call.roots[j])
        /\ \A r \in DOMAIN issued, i1 \in DOMAIN issued,
              i2 \in DOMAIN issued, l \in DOMAIN issued :
                (DeepPath(r, i1, i2, l) /\ CallOfDeepPath(r, i1, i2, l)) =>
                    /\ call.ret.leaf = NilCert
                    /\ call.ret.err.at = "chain"
                    /\ call.ret.err.idx = 1

\* C11 with every root of the call self-signed, as NewRoot makes them.
C11_UnderSelfSignedRoots ==
    (/\ call.made
     /\ \A j \in DOMAIN call.roots :
            call.roots[j].Raw.SignedBy = call.roots[j].PublicKey)
        => C11_IntermediatesAgainstRootsAlone

\* C11's case: verifyChain has been called on [L, I2, I1] with the root R,
\* every certificate of the chain satisfies its role policy and each is signed
\* by the next.
C11_Witness ==
    \E r \in DOMAIN issued, i1 \in DOMAIN issued,
       i2 \in DOMAIN issued, l \in DOMAIN issued :
        /\ DeepPath(r, i1, i2, l)
        /\ CallOfDeepPath(r, i1, i2, l)
        /\ validateLeaf(issued[l].crt) = NoError
        /\ CAPolicy(issued[i2].crt) /\ CAPolicy(issued[i1].crt)
        /\ CheckSignatureFrom(issued[l].crt, issued[i2].crt)
        /\ CheckSignatureFrom(issued[i2].crt, issued[i1].crt)
        /\ CheckSignatureFrom(issued[i1].crt, issued[r].crt)
        /\ call.ret.err # NoError

\* The root set of an accepted call holds a certificate that is not
\* self-signed: verifyRoot has let an intermediate in as a root.
C11_RootNotSelfSigned ==
    /\ call.made /\ call.ret.err = NoError
    /\ \E j \in DOMAIN call.roots :
          call.roots[j].Raw.SignedBy # call.roots[j].PublicKey

============================================================================
